---- MODULE Spec2Model ----
(***************************************************************************)
(* A model of src/app.py: the Telegram info bot.                           *)
(*                                                                         *)
(*  - Spec      : the dispatch of one inbound update to a handler and the  *)
(*                whole run of that handler (the effects it has on the     *)
(*                transport and on the providers).                         *)
(*  - SpecSup   : main(): startup, the three tasks under asyncio.gather,   *)
(*                teardown.                                                *)
(*  - SpecPing  : self_ping_task() on its own.                             *)
(*                                                                         *)
(* Strings are sequences of chunks: a chunk is a piece of text that the    *)
(* code never looks inside (a word, the '/' prefix, one blank, "city:").   *)
(* Concatenation of strings is concatenation of sequences, so startswith,  *)
(* strip, split and equality are computed as Python computes them.  The    *)
(* emoji that open most reply texts are left out of the string literals.   *)
(***************************************************************************)
EXTENDS Integers, Sequences, FiniteSets, TLC

VARIABLES
    update,       \* the update being handled
    handler,      \* the callback the dispatcher invoked for it, or "none"
    calls,        \* the calls that handler made, in order
    raised,       \* whether an exception left the handler
    resp,         \* what the providers and the environment gave that handler
    mainpc,       \* the await main() is at
    mainExc,      \* the exception main() ends with, or "none"
    webpc,        \* start_web_server task
    pollpc,       \* the task around app.updater.start_polling()
    updater,      \* app.updater: "idle", "starting", "polling", "stopped"
    stopCalled,   \* main() has called app.updater.stop()
    interrupted,  \* an external stop signal has arrived
    ppc,          \* self_ping_task
    externalUrl,  \* the environment's RENDER_EXTERNAL_URL
    pingLog,      \* what self_ping_task has done, in order
    lastHealth    \* the answer to the last GET /health from outside

dispatchVars == <<update, handler, calls, raised, resp>>
supVars ==
    <<mainpc, mainExc, webpc, pollpc, updater, stopCalled, interrupted,
      lastHealth>>
pingVars == <<ppc, externalUrl, pingLog>>
vars == <<dispatchVars, supVars, pingVars>>

----------------------------------------------------------------------------
(* Bounds of the inputs *)

MaxTextLen == 3
MaxDataLen == 3

----------------------------------------------------------------------------
(* Strings as sequences of chunks *)

SP == " "
SLASH == "/"

RECURSIVE SeqsUpTo(_, _)
SeqsUpTo(A, n) ==
    IF n = 0 THEN {<<>>}
    ELSE LET S == SeqsUpTo(A, n - 1)
         IN  S \cup {Append(s, a) : s \in {t \in S : Len(t) = n - 1}, a \in A}

StartsWith(s, c) == Len(s) > 0 /\ s[1] = c

RECURSIVE LStrip(_)
LStrip(s) == IF Len(s) > 0 /\ s[1] = SP THEN LStrip(Tail(s)) ELSE s

RECURSIVE RStrip(_)
RStrip(s) ==
    IF Len(s) > 0 /\ s[Len(s)] = SP THEN RStrip(SubSeq(s, 1, Len(s) - 1)) ELSE s

\* str.strip()
Strip(s) == RStrip(LStrip(s))

RECURSIVE SplitFrom(_, _, _)
SplitFrom(s, i, cur) ==
    IF i > Len(s) THEN (IF cur = <<>> THEN <<>> ELSE <<cur>>)
    ELSE IF s[i] = SP
         THEN (IF cur = <<>> THEN SplitFrom(s, i + 1, <<>>)
               ELSE <<cur>> \o SplitFrom(s, i + 1, <<>>))
         ELSE SplitFrom(s, i + 1, Append(cur, s[i]))

\* str.split(): the words between runs of blanks
Split(s) == SplitFrom(s, 1, <<>>)

RECURSIVE Join(_)
\* " ".join(words)
Join(ws) ==
    IF Len(ws) = 0 THEN <<>>
    ELSE IF Len(ws) = 1 THEN ws[1]
    ELSE ws[1] \o <<SP>> \o Join(Tail(ws))

----------------------------------------------------------------------------
(* Updates *)

CommandNames ==
    {"start", "help", "joke", "fact", "weather", "news", "quote", "define"}

TextAlphabet == {SLASH, SP, "hi", "weather", "zzz"}
Words == CommandNames \cup {"hi", "zzz", "Manila", "resilient", "extra", "foo"}

ArgTails == {<<>>, <<SP, "Manila">>, <<SP, "resilient", SP, "extra">>}

Texts ==
    SeqsUpTo(TextAlphabet, MaxTextLen)
    \cup {<<SLASH, c>> \o a : c \in CommandNames \cup {"foo"}, a \in ArgTails}

DataAlphabet == {"city:", "manual", "Manila", SP, "other:"}
\* callback_data is 1 to 64 bytes: never empty
Datas == SeqsUpTo(DataAlphabet, MaxDataLen) \ {<<>>}

NoData == <<"<None>">>

\* kind "message": update.message is set; "edited_message": update.message is
\* None and update.edited_message is set; "callback_query": a button press.
\* A message without text (a photo) has text <<>>.
Updates ==
    [kind : {"message", "edited_message"}, text : Texts, data : {<<>>}]
    \cup [kind : {"callback_query"}, text : {<<>>}, data : Datas \cup {NoData}]

NoUpdate == [kind |-> "none", text |-> <<>>, data |-> <<>>]

HasMessage(u) == u.kind = "message"

\* Telegram marks a bot_command entity at offset 0 when the text opens with
\* '/' directly followed by a word; the entity runs to the end of the words.
HasCommandEntity(text) ==
    Len(text) >= 2 /\ text[1] = SLASH /\ text[2] \in Words

RECURSIVE WordRun(_)
WordRun(s) ==
    IF Len(s) > 0 /\ s[1] \in Words THEN <<s[1]>> \o WordRun(Tail(s)) ELSE <<>>

\* message.text[1:entity.length]
CommandOf(text) == WordRun(Tail(text))

\* message.text.split()[1:]
ArgsOf(text) == Tail(Split(text))

----------------------------------------------------------------------------
(* The handlers main() registers, in registration order, and the dispatch  *)
(* of python-telegram-bot: the first handler whose check accepts the       *)
(* update is the only one invoked.                                         *)

CommandReg(c, f) == [type |-> "command", command |-> c, callback |-> f]

HandlerTable ==
    << CommandReg("start", "start"),
       CommandReg("help", "help_command"),
       CommandReg("joke", "joke_command"),
       CommandReg("fact", "fact_command"),
       CommandReg("weather", "weather_command"),
       CommandReg("news", "news_command"),
       CommandReg("quote", "quote_command"),
       CommandReg("define", "define_command"),
       [type |-> "message", command |-> "", callback |-> "echo_message"],
       [type |-> "callback", command |-> "", callback |-> "weather_callback"] >>

IsMessageUpdate(u) == u.kind \in {"message", "edited_message"}

\* faulty variant: the command is matched by its prefix
CommandCheckPrefix(c, u) ==
    /\ IsMessageUpdate(u)
    /\ HasCommandEntity(u.text)
    /\ StartsWith(CommandOf(u.text), c)

\* CommandHandler(c, f): the text opens with a command entity naming c
CommandCheck(c, u) ==
    IsMessageUpdate(u) /\ HasCommandEntity(u.text) /\ CommandOf(u.text) = <<c>>

\* filters.TEXT & ~filters.COMMAND
TextNotCommandFilter(u) ==
    IsMessageUpdate(u) /\ Len(u.text) > 0 /\ ~HasCommandEntity(u.text)

\* pattern="^(city:|manual)" applied with re.match: a match at the start
PatternMatch(data) == StartsWith(data, "city:") \/ StartsWith(data, "manual")

CallbackCheck(u) ==
    u.kind = "callback_query" /\ u.data # NoData /\ PatternMatch(u.data)

CheckUpdate(h, u) ==
    CASE h.type = "command" -> CommandCheck(h.command, u)
      [] h.type = "message" -> TextNotCommandFilter(u)
      [] h.type = "callback" -> CallbackCheck(u)

Matching(u) == {i \in 1..Len(HandlerTable) : CheckUpdate(HandlerTable[i], u)}

FirstMatch(u) == CHOOSE i \in Matching(u) : \A j \in Matching(u) : i <= j

route(u) ==
    IF Matching(u) = {} THEN "none" ELSE HandlerTable[FirstMatch(u)].callback

----------------------------------------------------------------------------
(* Provider responses *)

ErrKinds == {"network", "timeout"}
BadStatuses == {404, 500}

NoResp == [err |-> "-", status |-> 0, body |-> "-"]

\* the inputs of one handler run: the geocoding and forecast responses, the
\* response of the handler's one provider, whether its API key is set
Inputs(geo, wx, r, keySet) ==
    [geo |-> geo, wx |-> wx, r |-> r, keySet |-> keySet]
NoInputs == Inputs(NoResp, NoResp, NoResp, FALSE)
One(r) == Inputs(NoResp, NoResp, r, FALSE)
Keyed(r, keySet) == Inputs(NoResp, NoResp, r, keySet)
Two(geo, wx) == Inputs(geo, wx, NoResp, FALSE)

Responses(bodies) ==
    [err : ErrKinds, status : {0}, body : {"-"}]
    \cup [err : {"none"}, status : BadStatuses, body : {"-"}]
    \cup [err : {"none"}, status : {200}, body : bodies]

\* "ok": the payload the handler expects; "empty": valid JSON whose container
\* is empty ({} or []); "bad_item": the container holds an item without the
\* expected fields; "not_json": response.json() raises.
Bodies == {"ok", "empty", "bad_item", "not_json"}

\* geocoding payloads: "falsy" is {} or null, "no_results" a dict without the
\* key, "empty_results" {"results": []}, "null_results" {"results": null},
\* "first_not_dict" {"results": ["x"]}, "ok_noname" a result without a name.
GeoBodies ==
    {"ok", "ok_noname", "falsy", "no_results", "empty_results",
     "null_results", "first_not_dict", "not_json"}

\* forecast payloads: "no_current" lacks current_weather, "not_dict" is a list
WxBodies == {"ok", "no_current", "not_dict", "not_json"}

----------------------------------------------------------------------------
(* Calls a handler makes and the way it ends *)

Call(op, arg) == [op |-> op, arg |-> arg, markup |-> <<>>]
Reply(t) == Call("reply_text", t)
ReplyMarkup(t, kb) == [op |-> "reply_text", arg |-> t, markup |-> kb]
Edit(t) == Call("edit_message_text", t)
Answer == Call("answer", <<>>)
Get(p) == Call("GET", <<p>>)
Post(p) == Call("POST", <<p>>)

Done(cs) == [calls |-> cs, raised |-> FALSE]
Raise(cs) == [calls |-> cs, raised |-> TRUE]

\* Bot API: sending or editing to an empty text is rejected (BadRequest)
Send(cs, c) == IF c.arg = <<>> THEN Raise(cs) ELSE Done(Append(cs, c))

----------------------------------------------------------------------------
(* Reply texts *)

StartText == <<"Hello! I'm AiiMBot">>
HelpText == <<"Available Commands:">>
JokeApology == <<"Couldn't fetch a joke right now.">>
FactApology == <<"Couldn't fetch a fact right now.">>
NewsApology == <<"Couldn't fetch news right now.">>
NewsKeyMissing == <<"NEWS_API_KEY not set in environment.">>
NoNews == <<"No news found.">>
QuoteApology == <<"Couldn't fetch a quote right now.">>
DefineUsage == <<"Usage: /define <word>">>
DefineParseError == <<"Couldn't parse definition result.">>
WordNotFound == <<"Word not found.">>
NoCity == <<"No city provided.">>
GeoFailed == <<"Couldn't find that city (geocoding failed).">>
GeoUnreachable == <<"Couldn't reach geocoding service.">>
CityNotFound == <<"Couldn't find that city.">>
WxFailed == <<"Couldn't fetch weather right now.">>
WxUnreachable == <<"Couldn't reach weather service.">>
WxMissing == <<"Weather data missing.">>
PickerText == <<"Pick a city to get current weather">>
ManualText == <<"Please type /weather <city>">>
UnknownAction == <<"Unknown action.">>
AiNotConfigured == <<"AI service is not configured yet.">>
AiTrouble == <<"I'm having trouble thinking right now.">>
AiUnreachable == <<"I couldn't connect to my brain.">>

JokeText == <<"<setup>", "\n\n", "<punchline>">>
FactText == <<"<fact>">>
HeadlinesText == <<"Top Headlines:\n\n", "<headlines>">>
QuoteText(q, a) == <<"\"">> \o q \o <<"\"\n- ">> \o a
DefinitionText(word) == <<"Definition of ">> \o word \o <<":\n", "<meaning>">>
WeatherText(name, country) ==
    <<"Weather in ">> \o name \o <<", ", country, ":\n", "<temp>", "<wind>">>
FetchingText(city) == <<"Fetching weather for ">> \o city \o <<"...">>

SUGGESTED_CITIES ==
    << "Manila", "Quezon City", "Cebu City", "Davao City", "Baguio",
       "Iloilo City", "Bacolod", "Zamboanga City", "Cagayan de Oro",
       "Taguig", "Pasig", "Makati", "General Santos", "Tarlac",
       "Batangas City", "San Fernando", "Olongapo", "Lucena",
       "Legazpi", "Naga", "Tacloban", "Butuan", "Surigao",
       "Tagbilaran", "Puerto Princesa", "Roxas City", "Cotabato City",
       "Dumaguete", "San Pablo", "Dasmarinas", "Santa Rosa", "Lipa",
       "Tuguegarao", "Iligan", "Pagadian", "Dipolog", "Calbayog" >>

\* the callback_data of the picker's buttons, in order
Keyboard ==
    [i \in 1..Len(SUGGESTED_CITIES) |-> <<"city:", SUGGESTED_CITIES[i]>>]
    \o << <<"manual">> >>

----------------------------------------------------------------------------
(* Handlers.  Each takes the update and the responses of the providers it  *)
(* may call and returns the calls it made and whether an exception left it *)

start(u) == IF HasMessage(u) THEN Done(<<Reply(StartText)>>) ELSE Done(<<>>)

help_command(u) ==
    IF HasMessage(u) THEN Done(<<Reply(HelpText)>>) ELSE Done(<<>>)

\* session.get has no try around it; data['setup'] and response.json() raise
\* on a payload that is not the expected dict
joke_command(u, r) ==
    IF ~HasMessage(u) THEN Done(<<>>)
    ELSE IF r.err # "none" THEN Raise(<<Get("joke")>>)
    ELSE IF r.status = 200
         THEN IF r.body = "ok"
              THEN Done(<<Get("joke"), Reply(JokeText)>>)
              ELSE Raise(<<Get("joke")>>)
         ELSE Done(<<Get("joke"), Reply(JokeApology)>>)

fact_command(u, r) ==
    IF ~HasMessage(u) THEN Done(<<>>)
    ELSE IF r.err # "none" THEN Raise(<<Get("fact")>>)
    ELSE IF r.status = 200
         THEN IF r.body = "ok"
              THEN Done(<<Get("fact"), Reply(FactText)>>)
              ELSE Raise(<<Get("fact")>>)
         ELSE Done(<<Get("fact"), Reply(FactApology)>>)

FetchDone(cs, t) == [calls |-> cs, raised |-> FALSE, text |-> t]
FetchRaise(cs) == [calls |-> cs, raised |-> TRUE, text |-> <<>>]

\* the second half of fetch_weather_for_city: the forecast request
FetchForecast(cs, name, wx) ==
    LET cs2 == Append(cs, Get("forecast"))
    IN  IF wx.err # "none" THEN FetchDone(cs2, WxUnreachable)
        ELSE IF wx.status # 200 THEN FetchDone(cs2, WxFailed)
        ELSE CASE wx.body = "not_json" -> FetchDone(cs2, WxUnreachable)
               [] wx.body = "not_dict" -> FetchRaise(cs2)
               [] wx.body = "no_current" -> FetchDone(cs2, WxMissing)
               [] wx.body = "ok" ->
                      FetchDone(cs2, WeatherText(name, "<country>"))

\* faulty variant: a non-200 geocoding status does not return
fetch_weather_ignoring_status(city0, geo, wx) ==
    LET city == Strip(city0)
        cs == <<Get("geocoding")>>
    IN  IF city = <<>> THEN FetchDone(<<>>, NoCity)
        ELSE IF geo.err # "none" THEN FetchDone(cs, GeoUnreachable)
        ELSE IF geo.status # 200 THEN FetchForecast(cs, city, wx)
        ELSE CASE geo.body = "not_json" -> FetchDone(cs, GeoUnreachable)
               [] geo.body \in {"falsy", "no_results", "empty_results"} ->
                      FetchDone(cs, CityNotFound)
               [] geo.body \in {"null_results", "first_not_dict"} ->
                      FetchRaise(cs)
               [] geo.body = "ok" -> FetchForecast(cs, <<"<name>">>, wx)
               [] geo.body = "ok_noname" -> FetchForecast(cs, city, wx)

fetch_weather_for_city(city0, geo, wx) ==
    LET city == Strip(city0)
        cs == <<Get("geocoding")>>
    IN  IF city = <<>> THEN FetchDone(<<>>, NoCity)
        ELSE IF geo.err # "none" THEN FetchDone(cs, GeoUnreachable)
        ELSE IF geo.status # 200 THEN FetchDone(cs, GeoFailed)
        ELSE CASE geo.body = "not_json" -> FetchDone(cs, GeoUnreachable)
               [] geo.body \in {"falsy", "no_results", "empty_results"} ->
                      FetchDone(cs, CityNotFound)
               [] geo.body \in {"null_results", "first_not_dict"} ->
                      FetchRaise(cs)
               [] geo.body = "ok" -> FetchForecast(cs, <<"<name>">>, wx)
               [] geo.body = "ok_noname" -> FetchForecast(cs, city, wx)

weather_command(u, geo, wx) ==
    IF ~HasMessage(u) THEN Done(<<>>)
    ELSE IF ArgsOf(u.text) # <<>>
         THEN LET res == fetch_weather_for_city(Join(ArgsOf(u.text)), geo, wx)
              IN  IF res.raised THEN Raise(res.calls)
                  ELSE Send(res.calls, Reply(res.text))
         ELSE Done(<<ReplyMarkup(PickerText, Keyboard)>>)

\* faulty variant: the result is sent as a new message instead of an edit
weather_callback_replying(u, geo, wx) ==
    LET data == IF u.data = NoData THEN <<>> ELSE u.data
        cs == <<Answer>>
    IN  IF StartsWith(data, "city:")
        THEN LET city == Tail(data)
                 cs2 == Append(cs, Edit(FetchingText(city)))
                 res == fetch_weather_for_city(city, geo, wx)
             IN  IF res.raised THEN Raise(cs2 \o res.calls)
                 ELSE Send(cs2 \o res.calls, Reply(res.text))
        ELSE IF data = <<"manual">> THEN Done(Append(cs, Edit(ManualText)))
        ELSE Done(Append(cs, Edit(UnknownAction)))

weather_callback(u, geo, wx) ==
    LET data == IF u.data = NoData THEN <<>> ELSE u.data
        cs == <<Answer>>
    IN  IF StartsWith(data, "city:")
        THEN LET city == Tail(data)
                 cs2 == Append(cs, Edit(FetchingText(city)))
                 res == fetch_weather_for_city(city, geo, wx)
             IN  IF res.raised THEN Raise(cs2 \o res.calls)
                 ELSE Send(cs2 \o res.calls, Edit(res.text))
        ELSE IF data = <<"manual">> THEN Done(Append(cs, Edit(ManualText)))
        ELSE Done(Append(cs, Edit(UnknownAction)))

news_command(u, keySet, r) ==
    IF ~HasMessage(u) THEN Done(<<>>)
    ELSE IF ~keySet THEN Done(<<Reply(NewsKeyMissing)>>)
    ELSE IF r.err # "none" THEN Raise(<<Get("news")>>)
    ELSE IF r.status = 200
         THEN CASE r.body = "not_json" -> Raise(<<Get("news")>>)
                [] r.body = "empty" -> Done(<<Get("news"), Reply(NoNews)>>)
                [] r.body = "bad_item" -> Raise(<<Get("news")>>)
                [] r.body = "ok" -> Done(<<Get("news"), Reply(HeadlinesText)>>)
         ELSE Done(<<Get("news"), Reply(NewsApology)>>)

quote_command(u, r) ==
    IF ~HasMessage(u) THEN Done(<<>>)
    ELSE IF r.err # "none" THEN Raise(<<Get("quote")>>)
    ELSE IF r.status = 200
         THEN CASE r.body = "not_json" -> Raise(<<Get("quote")>>)
                [] r.body = "empty" -> Raise(<<Get("quote")>>)
                [] r.body = "bad_item" ->
                       Done(<<Get("quote"), Reply(QuoteText(<<>>, <<>>))>>)
                [] r.body = "ok" ->
                       Done(<<Get("quote"),
                              Reply(QuoteText(<<"<q>">>, <<"<a>">>))>>)
         ELSE Done(<<Get("quote"), Reply(QuoteApology)>>)

define_command(u, r) ==
    IF ~HasMessage(u) THEN Done(<<>>)
    ELSE IF ArgsOf(u.text) = <<>> THEN Done(<<Reply(DefineUsage)>>)
    ELSE LET word == ArgsOf(u.text)[1]
             cs == <<Get("dictionary")>>
         IN  IF r.err # "none" THEN Raise(cs)
             ELSE IF r.status = 200
                  THEN CASE r.body = "not_json" -> Raise(cs)
                         [] r.body \in {"empty", "bad_item"} ->
                                Done(Append(cs, Reply(DefineParseError)))
                         [] r.body = "ok" ->
                                Done(Append(cs, Reply(DefinitionText(word))))
                  ELSE Done(Append(cs, Reply(WordNotFound)))

AiDone(cs, t) == [calls |-> cs, text |-> t]

\* "empty": the completion's content is null or blank
generate_ai_reply(message, keySet, r) ==
    IF ~keySet THEN AiDone(<<>>, AiNotConfigured)
    ELSE LET cs == <<Post("mistral")>>
         IN  IF r.err # "none" THEN AiDone(cs, AiUnreachable)
             ELSE IF r.status = 200
                  THEN CASE r.body \in {"not_json", "bad_item"} ->
                                AiDone(cs, AiUnreachable)
                         [] r.body = "empty" -> AiDone(cs, <<>>)
                         [] r.body = "ok" -> AiDone(cs, <<"<content>">>)
                  ELSE AiDone(cs, AiTrouble)

\* faulty variant: the text is tested for '/' before it is stripped, and blanks
\* before the '/' or a '/' without a command after it get through
echo_message_unguarded(u, keySet, r) ==
    IF ~HasMessage(u) THEN Done(<<>>)
    ELSE LET user_text == Strip(u.text)
         IN  IF HasCommandEntity(u.text) THEN Done(<<>>)
             ELSE LET ai == generate_ai_reply(user_text, keySet, r)
                  IN  Send(ai.calls, Reply(ai.text))

echo_message(u, keySet, r) ==
    IF ~HasMessage(u) THEN Done(<<>>)
    ELSE LET user_text == Strip(u.text)
         IN  IF StartsWith(user_text, SLASH) THEN Done(<<>>)
             ELSE LET ai == generate_ai_reply(user_text, keySet, r)
                  IN  Send(ai.calls, Reply(ai.text))

----------------------------------------------------------------------------
(* Spec: updates are processed one at a time.  Receive takes the next      *)
(* update from the platform; one action per handler dispatches it and runs *)
(* that handler to its end; NextUpdate goes back for the next one.         *)

InitDispatch ==
    /\ update = NoUpdate
    /\ handler = "idle"
    /\ calls = <<>>
    /\ raised = FALSE
    /\ resp = NoInputs

Receive ==
    /\ handler = "idle"
    /\ \E u \in Updates : update' = u
    /\ handler' = "pending"
    /\ UNCHANGED <<calls, raised, resp, supVars, pingVars>>

Routed(h) == handler = "pending" /\ route(update) = h

Handled(h, res, in) ==
    /\ handler' = h
    /\ resp' = in
    /\ calls' = res.calls
    /\ raised' = res.raised
    /\ UNCHANGED <<update, supVars, pingVars>>

DispatchStart == Routed("start") /\ Handled("start", start(update), NoInputs)

DispatchHelp ==
    /\ Routed("help_command")
    /\ Handled("help_command", help_command(update), NoInputs)

DispatchJoke ==
    /\ Routed("joke_command")
    /\ \E r \in Responses(Bodies) :
           Handled("joke_command", joke_command(update, r), One(r))

DispatchFact ==
    /\ Routed("fact_command")
    /\ \E r \in Responses(Bodies) :
           Handled("fact_command", fact_command(update, r), One(r))

DispatchWeather ==
    /\ Routed("weather_command")
    /\ \E geo \in Responses(GeoBodies), wx \in Responses(WxBodies) :
           Handled("weather_command", weather_command(update, geo, wx),
                   Two(geo, wx))

DispatchNews ==
    /\ Routed("news_command")
    /\ \E keySet \in BOOLEAN, r \in Responses(Bodies) :
           Handled("news_command", news_command(update, keySet, r),
                   Keyed(r, keySet))

DispatchQuote ==
    /\ Routed("quote_command")
    /\ \E r \in Responses(Bodies) :
           Handled("quote_command", quote_command(update, r), One(r))

DispatchDefine ==
    /\ Routed("define_command")
    /\ \E r \in Responses(Bodies) :
           Handled("define_command", define_command(update, r), One(r))

DispatchEcho ==
    /\ Routed("echo_message")
    /\ \E keySet \in BOOLEAN, r \in Responses(Bodies) :
           Handled("echo_message", echo_message(update, keySet, r),
                   Keyed(r, keySet))

DispatchCallback ==
    /\ Routed("weather_callback")
    /\ \E geo \in Responses(GeoBodies), wx \in Responses(WxBodies) :
           Handled("weather_callback", weather_callback(update, geo, wx),
                   Two(geo, wx))

\* no registered handler accepts the update: nothing is invoked
DispatchNone == Routed("none") /\ Handled("none", Done(<<>>), NoInputs)

\* the update is done with (an exception that left the handler is logged by
\* the dispatcher: main() registers no error handler)
NextUpdate ==
    /\ handler \notin {"idle", "pending"}
    /\ update' = NoUpdate
    /\ handler' = "idle"
    /\ calls' = <<>>
    /\ raised' = FALSE
    /\ resp' = NoInputs
    /\ UNCHANGED <<supVars, pingVars>>

NextDispatch ==
    \/ Receive
    \/ DispatchStart
    \/ DispatchHelp
    \/ DispatchJoke
    \/ DispatchFact
    \/ DispatchWeather
    \/ DispatchNews
    \/ DispatchQuote
    \/ DispatchDefine
    \/ DispatchEcho
    \/ DispatchCallback
    \/ DispatchNone
    \/ NextUpdate

----------------------------------------------------------------------------
(* main(), start_web_server() and self_ping_task()                         *)
(*                                                                         *)
(* Every await is one step.  The three tasks are created together and run  *)
(* only once main() awaits asyncio.gather; the event loop may interleave   *)
(* their steps in any order.  gather (return_exceptions left False) hands  *)
(* the first exception of any task to main(), which runs its finally       *)
(* block; when main() ends, asyncio.run cancels the tasks still pending.   *)

MaxPings == 4

TasksRun == mainpc \in {"gather", "updater_stop", "app_stop", "shutdown"}

InitialDelay == 30
PingInterval == 600

Unset == <<"<unset>">>
ExternalUrls ==
    { Unset, <<>>, <<"bot.onrender.com">>,
      <<"https://", "bot.onrender.com">>, <<"http://", "localhost:10000">> }

\* os.getenv(name, default)
Getenv(value, default) == IF value = Unset THEN default ELSE value

\* "http" in url
ContainsHttp(url) == \E i \in 1..Len(url) : url[i] \in {"http://", "https://"}

PingUrl == Getenv(externalUrl, <<>>) \o <<"/health">>

\* faulty variant: only the emptiness of the url is tested
SkipSelfPingIfEmpty(url) == Len(url) = 0

\* if not url or "http" not in url
SkipSelfPing(url) == Len(url) = 0 \/ ~ContainsHttp(url)

PingOutcomes == {"200", "502", "exception"}

Sleep(n) == [ev |-> "sleep", arg |-> <<>>, secs |-> n]
Warn == [ev |-> "warning", arg |-> <<>>, secs |-> 0]
PingGet(url) == [ev |-> "GET", arg |-> url, secs |-> 0]
PingLogged(o) == [ev |-> "log", arg |-> <<o>>, secs |-> 0]

GetsIn(log) == {i \in 1..Len(log) : log[i].ev = "GET"}

\* await asyncio.sleep(30) returns; the URL is checked; the first GET starts
PingStart ==
    /\ TasksRun
    /\ ppc = "sleep30"
    /\ IF SkipSelfPing(PingUrl)
       THEN /\ ppc' = "returned"
            /\ pingLog' = pingLog \o <<Sleep(InitialDelay), Warn>>
       ELSE /\ ppc' = "get"
            /\ pingLog' = pingLog \o <<Sleep(InitialDelay), PingGet(PingUrl)>>
    /\ UNCHANGED <<externalUrl, supVars, dispatchVars>>

\* the GET ends with a status or an exception; either is logged
PingResponse ==
    /\ TasksRun
    /\ ppc = "get"
    /\ \E o \in PingOutcomes : pingLog' = Append(pingLog, PingLogged(o))
    /\ ppc' = "sleep600"
    /\ UNCHANGED <<externalUrl, supVars, dispatchVars>>

\* await asyncio.sleep(600) returns; the next GET starts
PingSleepDone ==
    /\ TasksRun
    /\ ppc = "sleep600"
    /\ Cardinality(GetsIn(pingLog)) < MaxPings
    /\ ppc' = "get"
    /\ pingLog' = pingLog \o <<Sleep(PingInterval), PingGet(PingUrl)>>
    /\ UNCHANGED <<externalUrl, supVars, dispatchVars>>

----------------------------------------------------------------------------
(* main() *)

Cancelled(pc, final) == IF pc \in final THEN pc ELSE "cancelled"

\* main() ends: asyncio.run cancels what is still pending and closes the loop
Exit(exc) ==
    /\ mainpc' = "exited"
    /\ mainExc' = exc
    /\ webpc' = Cancelled(webpc, {"none", "failed"})
    /\ pollpc' = Cancelled(pollpc, {"none", "done", "failed"})
    /\ ppc' = Cancelled(ppc, {"none", "returned"})
    /\ updater' = IF updater = "starting" THEN "idle" ELSE updater
    /\ UNCHANGED <<externalUrl, pingLog>>

\* await app.bot.set_my_commands(...): outside the try, an error ends main()
MainSetMyCommands ==
    /\ mainpc = "set_my_commands"
    /\ \/ /\ mainpc' = "initialize"
          /\ UNCHANGED <<mainExc, webpc, pollpc, updater, pingVars>>
       \/ Exit("TelegramError")
    /\ UNCHANGED <<stopCalled, interrupted, lastHealth, dispatchVars>>

\* await app.initialize()
MainInitialize ==
    /\ mainpc = "initialize"
    /\ \/ /\ mainpc' = "start"
          /\ UNCHANGED <<mainExc, webpc, pollpc, updater, pingVars>>
       \/ Exit("TelegramError")
    /\ UNCHANGED <<stopCalled, interrupted, lastHealth, dispatchVars>>

\* await app.start(); the three create_task calls; main() awaits gather
MainStart ==
    /\ mainpc = "start"
    /\ mainpc' = "gather"
    /\ webpc' = "created"
    /\ ppc' = "sleep30"
    /\ pollpc' = "created"
    /\ UNCHANGED <<mainExc, updater, stopCalled, interrupted, lastHealth,
                   externalUrl, pingLog, dispatchVars>>

\* the task's first step: up to await runner.setup()
WebBegin ==
    /\ TasksRun
    /\ webpc = "created"
    /\ webpc' = "setup"
    /\ UNCHANGED <<mainpc, mainExc, pollpc, updater, stopCalled, interrupted,
                   lastHealth, pingVars, dispatchVars>>

\* await runner.setup() returns; await site.start() begins
WebSetup ==
    /\ TasksRun
    /\ webpc = "setup"
    /\ webpc' = "site_start"
    /\ UNCHANGED <<mainpc, mainExc, pollpc, updater, stopCalled, interrupted,
                   lastHealth, pingVars, dispatchVars>>

\* await site.start(): the port is bound, or OSError (the port is taken)
WebSiteStart ==
    /\ TasksRun
    /\ webpc = "site_start"
    /\ \/ webpc' = "serving"
       \/ webpc' = "failed"
    /\ UNCHANGED <<mainpc, mainExc, pollpc, updater, stopCalled, interrupted,
                   lastHealth, pingVars, dispatchVars>>

\* start_polling() takes the updater's lock, marks it running and starts
\* its first request to the platform.  The loop runs the first steps of the
\* tasks in the order of their creation: the web server's comes first.
PollBegin ==
    /\ TasksRun
    /\ pollpc = "created"
    /\ webpc # "created"
    /\ pollpc' = "bootstrap"
    /\ updater' = "starting"
    /\ UNCHANGED <<mainpc, mainExc, webpc, stopCalled, interrupted,
                   lastHealth, pingVars, dispatchVars>>

\* the request ends: polling runs in the background and the task is done,
\* or start_polling() raises (a conflict, a network error)
PollBootstrap ==
    /\ TasksRun
    /\ pollpc = "bootstrap"
    /\ \/ pollpc' = "done" /\ updater' = "polling"
       \/ pollpc' = "failed" /\ updater' = "idle"
    /\ UNCHANGED <<mainpc, mainExc, webpc, stopCalled, interrupted,
                   lastHealth, pingVars, dispatchVars>>

\* gather hands the first exception of a task to main(): the finally
\* block.  main() is woken after the first step of every task.
GatherRaises ==
    /\ mainpc = "gather"
    /\ webpc = "failed" \/ pollpc = "failed"
    /\ pollpc # "created"
    /\ mainpc' = "updater_stop"
    /\ mainExc' = "task_exception"
    /\ UNCHANGED <<webpc, pollpc, updater, stopCalled, interrupted,
                   lastHealth, pingVars, dispatchVars>>

\* an external stop signal: before the try it ends main(); at gather the
\* awaited tasks are cancelled and the finally block runs
Interrupt ==
    /\ \/ /\ mainpc \in {"set_my_commands", "initialize", "start"}
          /\ Exit("KeyboardInterrupt")
       \/ /\ mainpc = "gather"
          /\ mainpc' = "updater_stop"
          /\ mainExc' = "KeyboardInterrupt"
          /\ webpc' = Cancelled(webpc, {"failed"})
          /\ pollpc' = Cancelled(pollpc, {"done", "failed"})
          /\ ppc' = Cancelled(ppc, {"returned"})
          /\ updater' = IF updater = "starting" THEN "idle" ELSE updater
          /\ UNCHANGED <<externalUrl, pingLog>>
    /\ interrupted' = TRUE
    /\ UNCHANGED <<stopCalled, lastHealth, dispatchVars>>

\* finally: await app.updater.stop(), which waits for the updater's lock
\* and raises RuntimeError when the updater is not running
MainUpdaterStop ==
    /\ mainpc = "updater_stop"
    /\ pollpc # "bootstrap"
    /\ stopCalled' = TRUE
    /\ IF updater = "polling"
       THEN /\ updater' = "stopped"
            /\ mainpc' = "app_stop"
            /\ UNCHANGED <<mainExc, webpc, pollpc, pingVars>>
       ELSE Exit("RuntimeError")
    /\ UNCHANGED <<interrupted, lastHealth, dispatchVars>>

\* await app.stop()
MainAppStop ==
    /\ mainpc = "app_stop"
    /\ mainpc' = "shutdown"
    /\ UNCHANGED <<mainExc, webpc, pollpc, updater, stopCalled, interrupted,
                   lastHealth, pingVars, dispatchVars>>

\* await app.shutdown(); main() ends with the exception it holds
MainShutdown ==
    /\ mainpc = "shutdown"
    /\ Exit(mainExc)
    /\ UNCHANGED <<stopCalled, interrupted, lastHealth, dispatchVars>>

\* handle_health: the hosting platform asks GET /health
handle_health == IF webpc = "serving" THEN "200 ok" ELSE "refused"

HealthProbe ==
    /\ lastHealth' = handle_health
    /\ UNCHANGED <<mainpc, mainExc, webpc, pollpc, updater, stopCalled,
                   interrupted, pingVars, dispatchVars>>

NextSup ==
    \/ MainSetMyCommands
    \/ MainInitialize
    \/ MainStart
    \/ WebBegin
    \/ WebSetup
    \/ WebSiteStart
    \/ PollBegin
    \/ PollBootstrap
    \/ PingStart
    \/ PingResponse
    \/ PingSleepDone
    \/ GatherRaises
    \/ Interrupt
    \/ MainUpdaterStop
    \/ MainAppStop
    \/ MainShutdown
    \/ HealthProbe

----------------------------------------------------------------------------
(* Specifications *)

\* the supervisor's state while the bot polls and serves
SupSteady ==
    /\ mainpc = "gather"
    /\ mainExc = "none"
    /\ webpc = "serving"
    /\ pollpc = "done"
    /\ updater = "polling"
    /\ stopCalled = FALSE
    /\ interrupted = FALSE
    /\ lastHealth = "none"

PingIdle ==
    /\ ppc = "returned"
    /\ externalUrl = Unset
    /\ pingLog = <<Sleep(InitialDelay), Warn>>

Init == InitDispatch /\ SupSteady /\ PingIdle

Next == NextDispatch

Spec == Init /\ [][Next]_vars

InitSup ==
    /\ InitDispatch
    /\ mainpc = "set_my_commands"
    /\ mainExc = "none"
    /\ webpc = "none"
    /\ pollpc = "none"
    /\ updater = "idle"
    /\ stopCalled = FALSE
    /\ interrupted = FALSE
    /\ lastHealth = "none"
    /\ ppc = "none"
    /\ externalUrl \in ExternalUrls
    /\ pingLog = <<>>

SpecSup == InitSup /\ [][NextSup]_vars

InitPing ==
    /\ InitDispatch
    /\ SupSteady
    /\ ppc = "sleep30"
    /\ externalUrl \in ExternalUrls
    /\ pingLog = <<>>

NextPing ==
    \/ PingStart
    \/ PingResponse
    \/ PingSleepDone

SpecPing == InitPing /\ [][NextPing]_vars

----------------------------------------------------------------------------
(* Vocabulary of the properties *)

HandledNow == handler \notin {"idle", "pending"}

SelectCalls(cs, op) == SelectSeq(cs, LAMBDA c : c.op = op)
Replies == SelectCalls(calls, "reply_text")
Edits == SelectCalls(calls, "edit_message_text")

IsCommandEvent(u) == IsMessageUpdate(u) /\ HasCommandEntity(u.text)
IsRegisteredCommand(u) ==
    IsCommandEvent(u) /\ \E c \in CommandNames : CommandOf(u.text) = <<c>>
CommandNameOf(u) == CommandOf(u.text)[1]

RegisteredFor ==
    [c \in CommandNames |->
        CASE c = "start" -> "start"
          [] c = "help" -> "help_command"
          [] c = "joke" -> "joke_command"
          [] c = "fact" -> "fact_command"
          [] c = "weather" -> "weather_command"
          [] c = "news" -> "news_command"
          [] c = "quote" -> "quote_command"
          [] c = "define" -> "define_command"]

GeoFailureTexts == {GeoFailed, GeoUnreachable, CityNotFound}
FailureTexts ==
    GeoFailureTexts \cup {NoCity, WxFailed, WxUnreachable, WxMissing}
IsWeatherString(t) == StartsWith(t, "Weather in ")
IsResultText(t) == IsWeatherString(t) \/ t \in FailureTexts

----------------------------------------------------------------------------
(* C1 *)

\* C1 as claimed: a command event with a registered name invokes the handler
\* registered for that name; one with an unregistered name invokes
\* echo_message (never no handler, never an error).
C1_Original ==
    (HandledNow /\ IsCommandEvent(update)) =>
        /\ ~raised \/ IsRegisteredCommand(update)
        /\ handler = IF IsRegisteredCommand(update)
                     THEN RegisteredFor[CommandNameOf(update)]
                     ELSE "echo_message"

\* C1 as amended: a command event with a registered name invokes the handler
\* registered for exactly that name; one with an unregistered name invokes
\* no handler at all: nothing is sent, no provider is called, nothing raises.
C1_Amended ==
    (HandledNow /\ IsCommandEvent(update)) =>
        IF IsRegisteredCommand(update)
        THEN handler = RegisteredFor[CommandNameOf(update)]
        ELSE handler = "none" /\ calls = <<>> /\ ~raised

\* an unregistered command has been dispatched, one whose name only starts
\* with a registered name
C1_Witness ==
    /\ handler = "none"
    /\ update.kind = "message"
    /\ update.text = <<SLASH, "weather", "zzz">>

----------------------------------------------------------------------------
(* C2 *)

ReplyingCommands ==
    {"joke_command", "fact_command", "quote_command", "news_command",
     "define_command", "weather_command"}

\* C2 as claimed: a recognized command that carries a message ends, for
\* every outcome of its provider call, with exactly one reply and with no
\* exception leaving the handler.
C2_Original ==
    (handler \in ReplyingCommands /\ HasMessage(update)) =>
        ~raised /\ Len(Replies) = 1

----------------------------------------------------------------------------
(* C3 *)

IsCityPress ==
    /\ handler = "weather_callback"
    /\ StartsWith(update.data, "city:")

----------------------------------------------------------------------------
(* C7 *)

\* the city fetch_weather_for_city is called with
ResolvedCity ==
    IF handler = "weather_command" THEN Join(ArgsOf(update.text))
    ELSE Tail(update.data)

WeatherResolved ==
    /\ \/ handler = "weather_command" /\ HasMessage(update)
             /\ ArgsOf(update.text) # <<>>
       \/ IsCityPress
    /\ Strip(ResolvedCity) # <<>>

\* the ways the place lookup fails
GeoNon200 == resp.geo.err = "none" /\ resp.geo.status # 200
GeoException ==
    \/ resp.geo.err # "none"
    \/ resp.geo.status = 200 /\ resp.geo.body = "not_json"
GeoNoResults ==
    /\ resp.geo.err = "none"
    /\ resp.geo.status = 200
    /\ resp.geo.body \in {"falsy", "no_results", "empty_results"}
GeoFails == GeoNon200 \/ GeoException \/ GeoNoResults
GeoSucceeds ==
    /\ resp.geo.err = "none"
    /\ resp.geo.status = 200
    /\ resp.geo.body \in {"ok", "ok_noname"}

ForecastIssued == \E i \in 1..Len(calls) : calls[i] = Get("forecast")
GeocodingBeforeForecast ==
    \A i \in 1..Len(calls) :
        calls[i] = Get("forecast") =>
            \E j \in 1..(i - 1) : calls[j] = Get("geocoding")

\* the text fetch_weather_for_city returned: the handler's last call sends it
ResultText == calls[Len(calls)].arg

\* C7 as claimed: whenever the place lookup fails (non-200, exception, empty
\* or missing results) the text is the "couldn't find that city" message and
\* no forecast request is issued; a forecast request follows only a
\* geocoding success.
C7_Original ==
    WeatherResolved =>
        /\ GeoFails =>
              /\ ~raised
              /\ ResultText \in {CityNotFound, GeoFailed}
              /\ ~ForecastIssued
        /\ ForecastIssued => GeoSucceeds /\ GeocodingBeforeForecast

\* C7 as amended: whenever the place lookup fails the text is that failure's
\* geocoding message ("Couldn't find that city (geocoding failed)." for a
\* non-200 status, "Couldn't reach geocoding service." for an exception,
\* "Couldn't find that city." for empty or missing results) and no forecast
\* request is issued; a forecast request follows only a geocoding success.
C7_Amended ==
    WeatherResolved =>
        /\ GeoFails =>
              /\ ~raised
              /\ ResultText = (CASE GeoException -> GeoUnreachable
                                 [] GeoNon200 -> GeoFailed
                                 [] GeoNoResults -> CityNotFound)
              /\ ~ForecastIssued
        /\ ForecastIssued => GeoSucceeds /\ GeocodingBeforeForecast

\* /weather Manila has been answered after the geocoding request timed out
C7_Witness ==
    /\ WeatherResolved
    /\ handler = "weather_command"
    /\ resp.geo.err = "timeout"
    /\ Replies = <<Reply(GeoUnreachable)>>

----------------------------------------------------------------------------
(* C8 *)

\* C8: a text event whose text begins with '/' and names no registered
\* command gets no reply and causes no provider call, whether the
\* registration's filter drops it or it reaches echo_message.
C8_NoReplyToUnknownSlashText ==
    (/\ HandledNow
     /\ IsMessageUpdate(update)
     /\ StartsWith(update.text, SLASH)
     /\ ~IsRegisteredCommand(update)) =>
        /\ handler \in {"none", "echo_message"}
        /\ calls = <<>>
        /\ ~raised

\* "/ hi" carries no command entity, reached echo_message and was suppressed
C8_Witness ==
    /\ handler = "echo_message"
    /\ update.kind = "message"
    /\ update.text = <<SLASH, SP, "hi">>
    /\ resp.keySet
    /\ resp.r.body = "ok"

----------------------------------------------------------------------------
(* C9 *)

\* C9 as claimed: a press whose payload is in the city namespace or equals
\* "manual" is resolved by weather_callback; every other payload gets the
\* "Unknown action." text; none is dropped.
C9_Original ==
    (HandledNow /\ update.kind = "callback_query") =>
        /\ handler = "weather_callback"
        /\ Len(Edits) >= 1
        /\ (Edits[Len(Edits)].arg = UnknownAction) <=>
               ~(StartsWith(update.data, "city:") \/ update.data = <<"manual">>)

----------------------------------------------------------------------------
(* C4, C5, C6: main() as the supervisor of its three tasks (SpecSup) *)

\* C4 as claimed: when the task around start_polling() fails, the process
\* does not end (the supervisor restarts the task after a backoff) and the
\* health responder stays up; only an external stop signal ends the process.
C4_Original ==
    (pollpc = "failed" /\ ~interrupted) =>
        /\ mainpc # "exited"
        /\ webpc # "cancelled"

\* C5 as claimed: after a failure of the health responder task (or of the
\* pinger task) the supervisor has not stopped the updater and the other
\* auxiliary task keeps running.
C5_Original ==
    (webpc = "failed" /\ ~interrupted) =>
        /\ updater # "stopped"
        /\ ppc # "cancelled"

\* C6 as claimed: in every interleaving of the three tasks the health
\* responder's site has been started before the updater polls.
C6_Original ==
    (updater = "polling" /\ ~interrupted) => webpc = "serving"

----------------------------------------------------------------------------
(* C10: self_ping_task (SpecPing) *)

ExternalValue == Getenv(externalUrl, <<>>)
Configured == ExternalValue # <<>>

NoPingEver ==
    /\ GetsIn(pingLog) = {}
    /\ ppc \in {"sleep30", "returned"}
    /\ pingLog \in {<<>>, <<Sleep(InitialDelay), Warn>>}
    /\ ppc = "returned" <=> pingLog # <<>>

\* after the initial delay: GET, its log line, the fixed sleep, and again
PingLoopShape ==
    /\ ppc # "returned"
    /\ \A i \in 1..Len(pingLog) :
          IF i = 1 THEN pingLog[i] = Sleep(InitialDelay)
          ELSE CASE (i - 2) % 3 = 0 ->
                        pingLog[i] = PingGet(ExternalValue \o <<"/health">>)
                 [] (i - 2) % 3 = 1 ->
                        /\ pingLog[i].ev = "log"
                        /\ pingLog[i].arg \in {<<o>> : o \in PingOutcomes}
                 [] (i - 2) % 3 = 2 -> pingLog[i] = Sleep(PingInterval)
    /\ ppc = CASE Len(pingLog) = 0 -> "sleep30"
               [] Len(pingLog) > 0 /\ Len(pingLog) % 3 = 2 -> "get"
               [] Len(pingLog) > 0 /\ Len(pingLog) % 3 = 0 -> "sleep600"
    /\ Cardinality(GetsIn(pingLog)) < MaxPings => ENABLED NextPing

\* C10 as claimed: with no external base URL configured the pinger warns and
\* returns without any request; with one configured it loops GET, sleep for
\* ever, whatever the GETs answer.
C10_Original == IF Configured THEN PingLoopShape ELSE NoPingEver

\* C10 as amended: when the external base URL is not configured or its value
\* does not contain "http", the pinger warns and returns without any request
\* and without entering its loop; when the value contains "http", then after
\* the initial delay it repeats one GET and one fixed-interval sleep for
\* ever, and a failed GET never ends the loop.
C10_Amended ==
    IF ContainsHttp(ExternalValue) THEN PingLoopShape ELSE NoPingEver

\* a GET has failed with an exception and another GET has followed it
C10_Witness ==
    /\ ContainsHttp(ExternalValue)
    /\ \E i \in 1..Len(pingLog) :
          /\ pingLog[i] = PingLogged("exception")
          /\ \E j \in (i + 1)..Len(pingLog) : pingLog[j].ev = "GET"

====
